---- MODULE Spec2Model ----
\* A model of src/app.py: the Streamlit "AI Fact Checker".
\* Several browser sessions run the script against one MongoDB collection and
\* one process-wide st.cache_data memo.  Each session's script run is one
\* handler; handlers of different sessions interleave at their database and
\* network calls.
EXTENDS Integers, Sequences, FiniteSets, Bags, TLC

\* ---------------------------------------------------------------- bounds
MaxAppends == 3      \* analyses started over the whole run
MaxLines == 2        \* text lines of a fetched HTML body

\* ------------------------------------------------------ program constants
MinArticleLen == 200
NEWS_ANALYSIS_PROMPT == "You are an expert AI fact-checker and news analyst."
AnalysisPreamble == "Please analyze the following news article:\n\n---\n\n"
FallbackApology == "Sorry, I couldn't generate a response at this moment. Please try again later."
NewsAnalysis == "News Analysis"
PastedText == "Pasted Text"

MsgNone == "none"
MsgEnterBoth == "Please enter username and password"
MsgInvalid == "Invalid username or password"
MsgFillAll == "Please fill all fields"
MsgMismatch == "Passwords do not match"
MsgExists == "Username already exists"
MsgRegistered == "Registration successful! Please login."
MsgDuplicateKey == "DuplicateKeyError"

ErrNone == "None"
ErrInsufficient == "Could not extract enough meaningful text from the URL."
ErrFetch == "Failed to fetch the article."
ErrParse == "An error occurred while parsing the article"

\* ------------------------------------------------------------ input sets
Sessions == {"s1", "s2"}
Usernames == {"", "alice"}
Passwords == {"", "pw1", "pw2"}
ArticleUrl == "https://example.com/news-article"
Urls == {"", ArticleUrl}

\* A text is the sequence of its newline separated chunks, each chunk given
\* by its character count; <<>> is the empty string.
PastedTexts == {<<>>, <<5>>}

\* datetime.now().strftime("%Y-%m-%d %H:%M:%S") at an add_to_history call;
\* no operation reads a stored date, so one reading of the clock is kept
Timestamps == {"2026-11-02 10:00:00"}

\* The endpoint either raises, or streams fragments that accumulate and strip
\* to one of these strings ("" when the model streams only whitespace).
Critique == "**Credibility Score:** 7/10"
EndpointOutcomes == {"raise", "", Critique}

VARIABLES
    store,          \* users_collection: username -> [password, history]
    session_state,  \* st.session_state of each session: [logged_in, username]
    pc,             \* where each session's script run stands
    local,          \* the locals a suspended script run holds
    msg,            \* the message the sidebar shows in each session
    cache,          \* st.cache_data memo of generate_ai_response
    endpoint_log,   \* every client.chat_completion call made, in order
    append_log,     \* every add_to_history call made, in order
    http_response,  \* the response requests.get obtained (extraction runs)
    extracted       \* what get_article_text returned for http_response

vars == <<store, session_state, pc, local, msg, cache, endpoint_log,
          append_log, http_response, extracted>>

\* ------------------------------------------------------------ extraction
\* An HTTP response: status 0 stands for requests.get raising (no response);
\* the body is parseable or makes the parser raise; a parseable body is a
\* sequence of text lines, each inside a script, a style or a visible element
\* and made of phrases separated by runs of two spaces (0: a blank phrase).
Statuses == {0, 200, 404}
Tags == {"script", "style", "p"}
LinePhrases == {<<0>>, <<99>>, <<100>>, <<99, 99>>, <<0, 100, 0>>, <<99, 0, 100>>}
Lines == [tag : Tags, phrases : LinePhrases]
Bodies == UNION {[1..n -> Lines] : n \in 0..MaxLines}
NoBody == <<>>
ConnFailure == [status |-> 0, parseable |-> TRUE, body |-> NoBody]
Responses ==
    {ConnFailure}
    \cup [status : Statuses \ {0}, parseable : {TRUE}, body : Bodies]
    \cup [status : Statuses \ {0}, parseable : {FALSE}, body : {NoBody}]

\* The responses the analysis form meets in the application runs: a failed
\* connection, an error page, a near-empty shell, and two article pages.
ShellPage == <<[tag |-> "script", phrases |-> <<100>>], [tag |-> "p", phrases |-> <<99>>]>>
ArticlePage == <<[tag |-> "p", phrases |-> <<99, 0, 100>>]>>
FormResponses ==
    {ConnFailure,
     [status |-> 404, parseable |-> TRUE, body |-> ShellPage],
     [status |-> 200, parseable |-> TRUE, body |-> ShellPage],
     [status |-> 200, parseable |-> TRUE, body |-> ArticlePage]}

RECURSIVE Flatten(_)
Flatten(ss) == IF ss = <<>> THEN <<>> ELSE Head(ss) \o Flatten(Tail(ss))

RECURSIVE SumSeq(_)
SumSeq(t) == IF t = <<>> THEN 0 ELSE Head(t) + SumSeq(Tail(t))

\* len() of a text: its chunks plus the "\n" joining them.
TextLen(t) == IF t = <<>> THEN 0 ELSE SumSeq(t) + (Len(t) - 1)

\* for script_or_style in soup(["script", "style"]): script_or_style.decompose()
Decompose(body) == SelectSeq(body, LAMBDA l : l.tag \notin {"script", "style"})

\* get_text, splitlines, strip, split("  "), strip, drop empty chunks, join.
CleanText(body) ==
    LET kept == Decompose(body)
        phrases == Flatten([i \in 1..Len(kept) |-> kept[i].phrases])
    IN  SelectSeq(phrases, LAMBDA c : c # 0)

MutTooShortNever(text) == FALSE

\* if len(text) < 200
TooShort(text) == TextLen(text) < MinArticleLen

\* get_article_text(url) for the response the GET obtains: (text, error).
get_article_text(resp) ==
    IF resp.status = 0 \/ resp.status >= 400
    THEN [text |-> <<>>, error |-> ErrFetch]
    ELSE IF ~resp.parseable
    THEN [text |-> <<>>, error |-> ErrParse]
    ELSE LET text == CleanText(resp.body)
         IN  IF TooShort(text)
             THEN [text |-> <<>>, error |-> ErrInsufficient]
             ELSE [text |-> text, error |-> ErrNone]

Pending == [text |-> <<>>, error |-> "pending"]

\* ------------------------------------------------------ credential store
\* hashlib.sha256(password.encode()).hexdigest(), tabulated for Passwords.
hash_password(password) ==
    CASE password = "" -> "e3b0c44298fc1c149afbf4c8996fb92427ae41e4649b934ca495991b7852b855"
      [] password = "pw1" -> "c592df4a86933b92addc9842402ddf198c638ea9be58916ee6e3734e1e3152f8"
      [] password = "pw2" -> "93915a0a4bf8f634cb1856494dd4304472ad46b9827f541f76b6761c49cc55b0"

MutVerifyAnyPassword(stored_password, provided_password) == TRUE

verify_password(stored_password, provided_password) ==
    stored_password = hash_password(provided_password)

MutFindOneMisses(username) == FALSE

\* users_collection.find_one({"_id": username}) is truthy
find_one(username) == username \in DOMAIN store

\* the document insert_one is given by the Register handler
NewUserDoc(username, password) ==
    [password |-> hash_password(password), history |-> <<>>]

\* insert_one under the unique _id index: the collection afterwards (a
\* duplicate _id leaves it as it is and raises DuplicateKeyError)
insert_one(coll, username, doc) ==
    IF username \in DOMAIN coll
    THEN coll
    ELSE [u \in DOMAIN coll \cup {username} |-> IF u = username THEN doc ELSE coll[u]]

MutPushBack(history, entry) == Append(history, entry)

MutPushReplaces(history, entry) == <<entry>>

\* {"$push": {"history": {"$each": [entry], "$position": 0}}}
PushFront(history, entry) == <<entry>> \o history

\* update_one({"_id": username}, ...): no document matched, nothing written
update_one_push(coll, username, entry) ==
    IF username \in DOMAIN coll
    THEN [coll EXCEPT ![username].history = PushFront(@, entry)]
    ELSE coll

\* user_data.get("history", []) if user_data else []
get_history(username) ==
    IF find_one(username) THEN store[username].history ELSE <<>>

history_entry(date, interaction_type, user_input, ai_response) ==
    [date |-> date, type |-> interaction_type, input |-> user_input,
     response |-> ai_response]

\* -------------------------------------------------------- analysis client
MutUserPromptWithoutArticle(article_text) == <<AnalysisPreamble, <<>>>>

\* f"Please analyze the following news article:\n\n---\n\n{article_text}"
UserPrompt(article_text) == <<AnalysisPreamble, article_text>>

MutCacheKeyDropsArticle(system_prompt, user_prompt) == <<system_prompt, <<user_prompt[1], <<>>>>>>

\* st.cache_data keys a call by the values of its arguments
CacheKey(system_prompt, user_prompt) == <<system_prompt, user_prompt>>

Cached(key) == key \in DOMAIN cache

\* the body of generate_ai_response for what the endpoint does
ResponseText(outcome) == IF outcome = "raise" THEN FallbackApology ELSE outcome

NoLocal == [username |-> "", password |-> "", article_text |-> <<>>,
            source_identifier |-> "", analysis |-> ""]

\* st.session_state before a login and after a logout
LoggedOut == [logged_in |-> FALSE, username |-> ""]

MutLoggedInForgetsUsername(username) == [logged_in |-> TRUE, username |-> ""]

\* st.session_state as the Login handler sets it
LoggedIn(username) == [logged_in |-> TRUE, username |-> username]

Init ==
    /\ store = <<>>
    /\ session_state = [s \in Sessions |-> LoggedOut]
    /\ pc = [s \in Sessions |-> "idle"]
    /\ local = [s \in Sessions |-> NoLocal]
    /\ msg = [s \in Sessions |-> MsgNone]
    /\ cache = <<>>
    /\ endpoint_log = <<>>
    /\ append_log = <<>>
    /\ http_response = ConnFailure
    /\ extracted = Pending

\* ------------------------------------------------------------- handlers
\* "Login" button of display_modern_auth
Login(s, username, password) ==
    /\ pc[s] = "idle"
    /\ ~session_state[s].logged_in
    /\ IF username # "" /\ password # ""
       THEN IF find_one(username) /\ verify_password(store[username].password, password)
            THEN /\ session_state' = [session_state EXCEPT
                        ![s] = LoggedIn(username)]
                 /\ msg' = [msg EXCEPT ![s] = MsgNone]
            ELSE /\ msg' = [msg EXCEPT ![s] = MsgInvalid]
                 /\ UNCHANGED session_state
       ELSE /\ msg' = [msg EXCEPT ![s] = MsgEnterBoth]
            /\ UNCHANGED session_state
    /\ UNCHANGED <<store, pc, local, cache, endpoint_log, append_log,
                   http_response, extracted>>

\* "Register" button of display_modern_auth, up to and including find_one
Register(s, username, password, confirm_password) ==
    /\ pc[s] = "idle"
    /\ ~session_state[s].logged_in
    /\ IF username # "" /\ password # ""
       THEN IF password = confirm_password
            THEN IF find_one(username)
                 THEN /\ msg' = [msg EXCEPT ![s] = MsgExists]
                      /\ UNCHANGED <<pc, local>>
                 ELSE /\ pc' = [pc EXCEPT ![s] = "insert"]
                      /\ local' = [local EXCEPT ![s] =
                            [NoLocal EXCEPT !.username = username, !.password = password]]
                      /\ msg' = [msg EXCEPT ![s] = MsgNone]
            ELSE /\ msg' = [msg EXCEPT ![s] = MsgMismatch]
                 /\ UNCHANGED <<pc, local>>
       ELSE /\ msg' = [msg EXCEPT ![s] = MsgFillAll]
            /\ UNCHANGED <<pc, local>>
    /\ UNCHANGED <<store, session_state, cache, endpoint_log, append_log,
                   http_response, extracted>>

\* the insert_one of the Register handler and the message after it
RegisterInsert(s) ==
    /\ pc[s] = "insert"
    /\ store' = insert_one(store, local[s].username,
                           NewUserDoc(local[s].username, local[s].password))
    /\ msg' = [msg EXCEPT ![s] =
            IF local[s].username \in DOMAIN store THEN MsgDuplicateKey ELSE MsgRegistered]
    /\ pc' = [pc EXCEPT ![s] = "idle"]
    /\ local' = [local EXCEPT ![s] = NoLocal]
    /\ UNCHANGED <<session_state, cache, endpoint_log, append_log,
                   http_response, extracted>>

\* "Logout" button of display_modern_auth
Logout(s) ==
    /\ pc[s] = "idle"
    /\ session_state[s].logged_in
    /\ session_state' = [session_state EXCEPT ![s] = LoggedOut]
    /\ msg' = [msg EXCEPT ![s] = MsgNone]
    /\ UNCHANGED <<store, pc, local, cache, endpoint_log, append_log,
                   http_response, extracted>>

\* display_analysis_form: the article text and the source identifier the
\* form returns for the widget values.  None and "" are both the falsy <<>>.
display_analysis_form(input) ==
    IF input.method = "url"
    THEN LET r == get_article_text(input.resp)
         IN  [article_text |-> r.text,
              source_identifier |-> IF r.error # ErrNone THEN "" ELSE input.url]
    ELSE [article_text |-> input.pasted, source_identifier |-> PastedText]

\* The widget values of a run "Analyze Article" triggers (the previous run
\* enabled the button, so the URL or the pasted text is non-empty), with the
\* response this run's GET obtains.
FormInputs ==
    [method : {"url"}, url : Urls \ {""}, pasted : {<<>>}, resp : FormResponses]
    \cup [method : {"paste"}, url : {""}, pasted : PastedTexts \ {<<>>}, resp : {ConnFailure}]

\* analyses started: recorded ones and those between generation and record
Started == Len(append_log) + Cardinality({s \in Sessions : pc[s] \in {"results", "save"}})

MutCachePutSkipsFailure(key, analysis) ==
    IF analysis = FallbackApology
    THEN cache
    ELSE [k \in DOMAIN cache \cup {key} |-> IF k = key THEN analysis ELSE cache[k]]

\* the memo after generate_ai_response returned analysis for key
CachePut(key, analysis) ==
    [k \in DOMAIN cache \cup {key} |-> IF k = key THEN analysis ELSE cache[k]]

\* One script run of the logged-in branch triggered by "Analyze Article",
\* down to the return of generate_ai_response.  st.cache_data looks a key
\* up, computes and stores under a lock, so the memoized call is one step.
AnalysisRun(s, input) ==
    /\ pc[s] = "idle"
    /\ session_state[s].logged_in
    /\ LET form == display_analysis_form(input)
           user_prompt == UserPrompt(form.article_text)
           key == CacheKey(NEWS_ANALYSIS_PROMPT, user_prompt)
       IN  IF form.article_text # <<>>
           THEN /\ Started < MaxAppends
                /\ IF Cached(key)
                   THEN /\ UNCHANGED <<cache, endpoint_log>>
                        /\ local' = [local EXCEPT ![s] =
                              [NoLocal EXCEPT !.article_text = form.article_text,
                                              !.source_identifier = form.source_identifier,
                                              !.analysis = cache[key]]]
                   ELSE \E outcome \in EndpointOutcomes :
                        /\ cache' = CachePut(key, ResponseText(outcome))
                        /\ endpoint_log' = Append(endpoint_log,
                              [system_prompt |-> NEWS_ANALYSIS_PROMPT,
                               user_prompt |-> user_prompt,
                               result |-> ResponseText(outcome)])
                        /\ local' = [local EXCEPT ![s] =
                              [NoLocal EXCEPT !.article_text = form.article_text,
                                              !.source_identifier = form.source_identifier,
                                              !.analysis = ResponseText(outcome)]]
                /\ pc' = [pc EXCEPT ![s] = "results"]
           ELSE UNCHANGED <<cache, endpoint_log, pc, local>>
    /\ UNCHANGED <<store, session_state, msg, append_log, http_response, extracted>>

\* display_analysis_results down to st.code: the critique is on the page
DisplayAnalysisResults(s) ==
    /\ pc[s] = "results"
    /\ pc' = [pc EXCEPT ![s] = "save"]
    /\ UNCHANGED <<store, session_state, local, msg, cache, endpoint_log, append_log,
                   http_response, extracted>>

\* the add_to_history call that ends display_analysis_results
AddToHistory(s, date) ==
    /\ pc[s] = "save"
    /\ LET username == session_state[s].username
           entry == history_entry(date, NewsAnalysis, local[s].source_identifier,
                                  local[s].analysis)
       IN  /\ store' = update_one_push(store, username, entry)
           /\ append_log' = Append(append_log, [username |-> username, entry |-> entry])
    /\ pc' = [pc EXCEPT ![s] = "idle"]
    /\ local' = [local EXCEPT ![s] = NoLocal]
    /\ UNCHANGED <<session_state, msg, cache, endpoint_log, http_response, extracted>>

Next ==
    \/ \E s \in Sessions, u \in Usernames, p \in Passwords : Login(s, u, p)
    \/ \E s \in Sessions, u \in Usernames, p \in Passwords, c \in Passwords :
          Register(s, u, p, c)
    \/ \E s \in Sessions : RegisterInsert(s)
    \/ \E s \in Sessions : Logout(s)
    \/ \E s \in Sessions, i \in FormInputs : AnalysisRun(s, i)
    \/ \E s \in Sessions : DisplayAnalysisResults(s)
    \/ \E s \in Sessions, d \in Timestamps : AddToHistory(s, d)

Spec == Init /\ [][Next]_vars

\* ------------------------------------------------- extraction on its own
\* get_article_text applied to every response of Responses.
ExtractInit ==
    /\ store = <<>>
    /\ session_state = [s \in Sessions |-> LoggedOut]
    /\ pc = [s \in Sessions |-> "idle"]
    /\ local = [s \in Sessions |-> NoLocal]
    /\ msg = [s \in Sessions |-> MsgNone]
    /\ cache = <<>>
    /\ endpoint_log = <<>>
    /\ append_log = <<>>
    /\ http_response \in Responses
    /\ extracted = Pending

GetArticleText ==
    /\ extracted = Pending
    /\ extracted' = get_article_text(http_response)
    /\ UNCHANGED <<store, session_state, pc, local, msg, cache, endpoint_log,
                   append_log, http_response>>

ExtractNext == GetArticleText

SpecExtract == ExtractInit /\ [][ExtractNext]_vars

\* ================================================================ claims
HasRecord(u) == u \in DOMAIN store

\* C1 as stated: a Register run for a username that has a record always
\* shows "Username already exists" and leaves the store as it was, whatever
\* password it is given.
C1_AlwaysAlreadyExists ==
    [][\A s \in Sessions, u \in Usernames, p \in Passwords, c \in Passwords :
          (Register(s, u, p, c) /\ HasRecord(u))
              => (msg'[s] = MsgExists /\ store' = store)]_vars

\* C1, amended: a Register run for a username that has a record never
\* reaches insert_one and leaves the store as it was (same digest, same
\* history, no second record); it shows "Username already exists" when the
\* password is non-empty and equals its confirmation, "Please fill all
\* fields" when the password is empty, "Passwords do not match" otherwise.
C1_ExistingUsernameRejected ==
    [][\A s \in Sessions, u \in Usernames, p \in Passwords, c \in Passwords :
          (Register(s, u, p, c) /\ HasRecord(u))
              => /\ store' = store
                 /\ pc'[s] = "idle"
                 /\ msg'[s] = IF p = "" THEN MsgFillAll
                              ELSE IF p # c THEN MsgMismatch
                              ELSE MsgExists]_vars

\* A second registration of alice was refused while her record, made with
\* pw1, already held history.
C1_Witness ==
    \E s \in Sessions :
        /\ msg[s] = MsgExists
        /\ HasRecord("alice")
        /\ store["alice"].password = hash_password("pw1")
        /\ store["alice"].history # <<>>

\* C2 as stated: every login attempt with (u, p) logs the session in as u
\* when u has a record whose digest is the hash of p, and otherwise shows
\* "Invalid username or password" and stays logged out.
C2_InvalidCredentialsOtherwise ==
    [][\A s \in Sessions, u \in Usernames, p \in Passwords :
          Login(s, u, p) =>
              IF HasRecord(u) /\ store[u].password = hash_password(p)
              THEN session_state'[s] = [logged_in |-> TRUE, username |-> u]
              ELSE msg'[s] = MsgInvalid /\ session_state'[s] = LoggedOut]_vars

\* C2, amended: a login attempt with (u, p) logs the session in as u if and
\* only if u has a record whose digest is the hash of p; otherwise the
\* session stays logged out, with "Invalid username or password" when both
\* fields are non-empty and "Please enter username and password" when one
\* of them is empty.
C2_LoginIffDigestMatches ==
    [][\A s \in Sessions, u \in Usernames, p \in Passwords :
          Login(s, u, p) =>
              IF HasRecord(u) /\ store[u].password = hash_password(p)
              THEN session_state'[s] = [logged_in |-> TRUE, username |-> u]
              ELSE /\ session_state'[s] = LoggedOut
                   /\ msg'[s] = IF u # "" /\ p # "" THEN MsgInvalid ELSE MsgEnterBoth]_vars

\* One session is logged in as alice while another was refused with
\* "Invalid username or password".
C2_Witness ==
    \E s, t \in Sessions :
        /\ session_state[s] = [logged_in |-> TRUE, username |-> "alice"]
        /\ msg[t] = MsgInvalid
        /\ ~session_state[t].logged_in

RECURSIVE Reverse(_)
Reverse(q) == IF q = <<>> THEN <<>> ELSE Append(Reverse(Tail(q)), Head(q))

\* the entries add_to_history was called with for u, in call order
AppendedFor(u) ==
    LET calls == SelectSeq(append_log, LAMBDA a : a.username = u)
    IN  [i \in 1..Len(calls) |-> calls[i].entry]

\* C3: at every moment the history read back for a user is exactly the
\* entries appended for that user so far, newest first: each append went
\* to position 0 and nothing else edited, moved or removed an entry.
C3_HistoryIsReverseOfAppends ==
    \A u \in Usernames : get_history(u) = Reverse(AppendedFor(u))

\* Three appends for alice, not all alike, are read back in reverse order.
C3_Witness ==
    /\ Len(AppendedFor("alice")) = 3
    /\ AppendedFor("alice")[1] # AppendedFor("alice")[3]
    /\ get_history("alice")[1] = AppendedFor("alice")[3]
    /\ get_history("alice")[3] = AppendedFor("alice")[1]

\* C4 as stated: when sessions register one username concurrently, the
\* insert that finds no record creates it with the session's digest and
\* tells the session that registration succeeded; every other insert
\* leaves the store as it is and its session fails with "Username already
\* exists".
C4_LosersGetAlreadyExists ==
    [][\A s \in Sessions :
          RegisterInsert(s) =>
              IF HasRecord(local[s].username)
              THEN store' = store /\ msg'[s] = MsgExists
              ELSE /\ msg'[s] = MsgRegistered
                   /\ DOMAIN store' = DOMAIN store \cup {local[s].username}
                   /\ store'[local[s].username] =
                         [password |-> hash_password(local[s].password),
                          history |-> <<>>]]_vars

SeqToBag(q) == [e \in {q[i] : i \in 1..Len(q)} |-> Cardinality({i \in 1..Len(q) : q[i] = e})]

\* C5: whatever the interleaving of the sessions appending to one user, the
\* user's history holds every entry appended for that user, each as often
\* as it was appended: no append is lost or overwritten by another.
C5_NoAppendLost ==
    \A u \in Usernames \ {""} :
        HasRecord(u) => SeqToBag(store[u].history) = SeqToBag(AppendedFor(u))

\* Both sessions are logged in as alice; one has appended twice or more and
\* the other stands right before its own append.
C5_Witness ==
    /\ \A s \in Sessions : session_state[s] = [logged_in |-> TRUE, username |-> "alice"]
    /\ \E s \in Sessions : pc[s] = "save"
    /\ Len(store["alice"].history) >= 2

\* an endpoint call was made for exactly this pair and produced this text
ProducedFor(system_prompt, user_prompt, text) ==
    \E i \in 1..Len(endpoint_log) :
        endpoint_log[i] = [system_prompt |-> system_prompt,
                           user_prompt |-> user_prompt, result |-> text]

Analysing(s) == pc[s] \in {"results", "save"}

\* C7: the text a run of generate_ai_response returned, and every memoized
\* text, was produced by an endpoint call made for that same (system
\* prompt, user prompt) pair; no pair is ever sent to the endpoint twice, so
\* a repeated pair gets the identical text from the memo; and runs for
\* different pairs each have an endpoint call of their own.
C7_MemoNeverCrossesInputs ==
    /\ \A s \in Sessions :
          Analysing(s) =>
              ProducedFor(NEWS_ANALYSIS_PROMPT, UserPrompt(local[s].article_text),
                          local[s].analysis)
    /\ \A k \in DOMAIN cache : ProducedFor(k[1], k[2], cache[k])
    /\ \A i, j \in 1..Len(endpoint_log) :
          (/\ endpoint_log[i].system_prompt = endpoint_log[j].system_prompt
           /\ endpoint_log[i].user_prompt = endpoint_log[j].user_prompt) => i = j
    /\ \A s, t \in Sessions :
          (Analysing(s) /\ Analysing(t) /\ local[s].article_text = local[t].article_text)
              => local[s].analysis = local[t].analysis

\* Three analyses were started with two endpoint calls: one of them was
\* served from the memo, and both sessions hold a text for different pairs.
C7_Witness ==
    /\ Len(endpoint_log) = 2
    /\ Started = 3
    /\ \A s \in Sessions : Analysing(s)
    /\ \E s, t \in Sessions : local[s].article_text # local[t].article_text

AllEntries == UNION {{store[u].history[i] : i \in 1..Len(store[u].history)} : u \in DOMAIN store}

\* C8 as stated: every history entry of every user has a non-empty
\* timestamp, the kind "News Analysis", the extracted URL or "Pasted Text"
\* as its source, and a non-empty response text.
C8_AllFieldsPopulated ==
    \A e \in AllEntries :
        /\ e.date # ""
        /\ e.type = NewsAnalysis
        /\ e.input \in (Urls \ {""}) \cup {PastedText}
        /\ e.response # ""

\* C9 as stated: no history entry was appended for a generation call that
\* failed, that is, none carries the fallback apology as its response.
C9_NoEntryForFailedGeneration ==
    \A e \in AllEntries : e.response # FallbackApology

\* C10: every add_to_history call is made for the username of the calling
\* session, which is logged in, non-empty and has a record, so the call adds
\* its entry; a session becomes logged in as u only by a Login run whose
\* password hashes to u's stored digest; no record is ever deleted and no
\* digest changed; and a logged-out session holds no username.
C10_AppendTargetsValidUser ==
    [][/\ \A s \in Sessions, d \in Timestamps :
             AddToHistory(s, d) =>
                 /\ session_state[s].logged_in
                 /\ session_state[s].username # ""
                 /\ HasRecord(session_state[s].username)
                 /\ Len(store'[session_state[s].username].history)
                        = Len(store[session_state[s].username].history) + 1
                 /\ append_log'[Len(append_log')].username = session_state[s].username
       /\ \A s \in Sessions :
             (session_state'[s].logged_in /\ ~session_state[s].logged_in) =>
                 \E p \in Passwords :
                     /\ Login(s, session_state'[s].username, p)
                     /\ HasRecord(session_state'[s].username)
                     /\ store[session_state'[s].username].password = hash_password(p)
       /\ \A s \in Sessions :
             /\ session_state'[s].logged_in => HasRecord(session_state'[s].username)
             /\ ~session_state'[s].logged_in => session_state'[s].username = ""
       /\ \A u \in DOMAIN store :
             u \in DOMAIN store' /\ store'[u].password = store[u].password]_vars

\* A session logged in as alice has made an add_to_history call, and the
\* entry is in alice's history.
C10_Witness ==
    \E s \in Sessions :
        /\ session_state[s] = [logged_in |-> TRUE, username |-> "alice"]
        /\ append_log # <<>>
        /\ append_log[Len(append_log)].username = "alice"
        /\ get_history("alice") # <<>>

\* ---- extraction
RECURSIVE TrimBlank(_)
\* a line without its leading and trailing blank phrases (line.strip())
TrimBlank(phrases) ==
    IF phrases = <<>> THEN <<>>
    ELSE IF Head(phrases) = 0 THEN TrimBlank(Tail(phrases))
    ELSE IF phrases[Len(phrases)] = 0 THEN TrimBlank(SubSeq(phrases, 1, Len(phrases) - 1))
    ELSE phrases

\* the characters of a stripped line: its phrases and the two spaces
\* between neighbours
LineLen(phrases) ==
    LET t == TrimBlank(phrases)
    IN  IF t = <<>> THEN 0 ELSE SumSeq(t) + 2 * (Len(t) - 1)

\* the length of the page's visible text: the non-blank lines outside
\* script and style, stripped, one per line
VisibleTextLen(body) ==
    LET visible == SelectSeq(body, LAMBDA l : l.tag \notin {"script", "style"}
                                              /\ LineLen(l.phrases) > 0)
    IN  IF visible = <<>> THEN 0
        ELSE SumSeq([i \in 1..Len(visible) |-> LineLen(visible[i].phrases)])
             + (Len(visible) - 1)

ShortPage(resp) ==
    /\ resp.status # 0
    /\ resp.parseable
    /\ VisibleTextLen(resp.body) < 200

\* C6 as stated: extraction of a page with less than 200 characters of
\* visible text fails with InsufficientContent whatever the HTTP status.
C6_InsufficientWhateverStatus ==
    (extracted # Pending /\ ShortPage(http_response))
        => extracted.error = ErrInsufficient

\* C6, amended: extraction of a page with less than 200 characters of
\* visible text never succeeds; it fails with InsufficientContent when the
\* status is below 400 and with FetchError when the status is an error
\* status (raise_for_status comes first).
C6_ShortPageNeverSucceeds ==
    (extracted # Pending /\ ShortPage(http_response))
        => /\ extracted.error # ErrNone
           /\ extracted.text = <<>>
           /\ extracted.error =
                 IF http_response.status >= 400 THEN ErrFetch ELSE ErrInsufficient

\* A 200 response whose script text alone would pass the threshold was
\* refused as insufficient.
C6_Witness ==
    /\ extracted.error = ErrInsufficient
    /\ http_response.status = 200
    /\ \E i \in 1..Len(http_response.body) : http_response.body[i].tag = "script"
    /\ VisibleTextLen(http_response.body) > 0
    /\ TextLen(Flatten([i \in 1..Len(http_response.body) |->
                           http_response.body[i].phrases])) >= 200

\* ---- order of the steps of an analysis interaction
\* the entry add_to_history builds for the critique a run holds
EntryOf(s, date) ==
    [date |-> date, type |-> NewsAnalysis, input |-> local[s].source_identifier,
     response |-> local[s].analysis]

\* the run of session s has rendered its critique and not yet recorded it
RenderedNotRecorded(s) == pc[s] = "save"

\* C11 as stated, its last step: when display_analysis_results puts the
\* critique on the page, the History Recorder has already persisted the
\* entry of that critique for the session's user.
C11_RecordedBeforeDisplayed ==
    [][\A s \in Sessions :
          DisplayAnalysisResults(s) =>
              \E d \in Timestamps, i \in 1..Len(append_log) :
                  append_log[i] = [username |-> session_state[s].username,
                                   entry |-> EntryOf(s, d)]]_vars

\* C11, amended: a run accepts article input only in a logged-in session
\* whose user has a record; the text the Analysis Client is called (or the
\* memo looked up) with is the text this run's extraction returned for a URL,
\* or the pasted text; the critique exists before it is rendered; and the
\* critique is rendered BEFORE the entry is persisted: rendering writes
\* nothing to the store, and add_to_history runs only after rendering, with
\* the rendered critique.  No step is skipped or taken out of this order.
C11_StepsInCodeOrder ==
    [][/\ \A s \in Sessions, i \in FormInputs :
             (AnalysisRun(s, i) /\ pc'[s] = "results") =>
                 /\ session_state[s].logged_in
                 /\ HasRecord(session_state[s].username)
                 /\ local'[s].article_text # <<>>
                 /\ local'[s].article_text =
                       IF i.method = "url" THEN get_article_text(i.resp).text
                       ELSE i.pasted
                 /\ i.method = "url" => get_article_text(i.resp).error = ErrNone
                 /\ \E k \in 1..Len(endpoint_log') :
                       endpoint_log'[k] =
                           [system_prompt |-> NEWS_ANALYSIS_PROMPT,
                            user_prompt |-> <<AnalysisPreamble, local'[s].article_text>>,
                            result |-> local'[s].analysis]
                 /\ UNCHANGED <<store, append_log>>
       /\ \A s \in Sessions :
             DisplayAnalysisResults(s) =>
                 /\ pc[s] = "results"
                 /\ UNCHANGED <<store, append_log, local>>
       /\ \A s \in Sessions, d \in Timestamps :
             AddToHistory(s, d) =>
                 /\ RenderedNotRecorded(s)
                 /\ append_log' = Append(append_log,
                        [username |-> session_state[s].username, entry |-> EntryOf(s, d)])
                 /\ store'[session_state[s].username].history[1] = EntryOf(s, d)
       /\ \A s \in Sessions :
             pc'[s] # pc[s] =>
                 <<pc[s], pc'[s]>> \in {<<"idle", "insert">>, <<"insert", "idle">>,
                                        <<"idle", "results">>, <<"results", "save">>,
                                        <<"save", "idle">>}]_vars

\* A URL interaction stands between rendering and recording: the text was
\* extracted, the critique produced for it and rendered, the entry is not
\* yet in the history.
C11_Witness ==
    \E s \in Sessions :
        /\ RenderedNotRecorded(s)
        /\ local[s].source_identifier = ArticleUrl
        /\ local[s].article_text = CleanText(ArticlePage)
        /\ local[s].analysis = Critique
        /\ get_history(session_state[s].username) = <<>>

\* ---- memoized failures
\* the memo key of the pair a run of session s was made for
PairOf(article_text) == <<NEWS_ANALYSIS_PROMPT, <<AnalysisPreamble, article_text>>>>

\* C12: a run of generate_ai_response that returns the fallback apology
\* leaves it in the memo under its pair; a memo entry is never dropped or
\* changed; a later run for a pair memoized with the apology returns the
\* apology again and makes no endpoint call; and so no pair is ever sent to
\* the endpoint twice, failed or not.
C12_FailureMemoizedLikeSuccess ==
    [][/\ \A s \in Sessions :
             (pc[s] = "idle" /\ pc'[s] = "results") =>
                 LET key == PairOf(local'[s].article_text)
                 IN  /\ key \in DOMAIN cache'
                     /\ cache'[key] = local'[s].analysis
                     /\ (key \in DOMAIN cache /\ cache[key] = FallbackApology) =>
                            /\ local'[s].analysis = FallbackApology
                            /\ endpoint_log' = endpoint_log
                            /\ cache' = cache
       /\ \A k \in DOMAIN cache : k \in DOMAIN cache' /\ cache'[k] = cache[k]
       /\ \A a, b \in 1..Len(endpoint_log') :
             (/\ endpoint_log'[a].system_prompt = endpoint_log'[b].system_prompt
              /\ endpoint_log'[a].user_prompt = endpoint_log'[b].user_prompt) => a = b]_vars

\* The endpoint was contacted once and failed; the apology was recorded for
\* the first run, and a second run for the same pasted text holds the
\* apology again, served from the memo.
C12_Witness ==
    \E s \in Sessions :
        /\ pc[s] = "results"
        /\ local[s].analysis = FallbackApology
        /\ local[s].source_identifier = PastedText
        /\ Len(endpoint_log) = 1
        /\ endpoint_log[1].result = FallbackApology
        /\ Len(append_log) = 1
        /\ append_log[1].entry.response = FallbackApology
        /\ append_log[1].entry.input = PastedText

====
